---- MODULE Spec2Model ----
(***************************************************************************)
(* Model of src/app.py: the YouTube chapter generator.                     *)
(*                                                                         *)
(* A float number of seconds is represented by a whole number of ticks,    *)
(* TicksPerSec ticks to the second, so int() is a real truncation.  A      *)
(* Python str is a sequence of one-character strings.  A caption entry's   *)
(* text is represented by its word count (len(text.split())) and by the    *)
(* entry's index in the transcript.                                        *)
(***************************************************************************)
EXTENDS Integers, Sequences, FiniteSets, TLC

\* ------------------------------------------------------------- bounds
\* entries in a caption track
MaxEntries == 2
\* latest start time of an entry, in ticks
MaxTick == 2
\* resolution of a float number of seconds
TicksPerSec == 2
\* words in one entry's text
MaxWords == 1
\* largest max_words_per_chunk
MaxThreshold == 2
\* invocations of generate_ai_chapters
MaxRuns == 2

\* ---------------------------------------------------------- constants
\* {11} of the video id pattern
IdLen == 11

None == <<>>
ValueError == 0 - 1
FallbackTitle == "Chapter Title Error"

Min(S) == CHOOSE x \in S : \A y \in S : x <= y

DigitChars == <<"0", "1", "2", "3", "4", "5", "6", "7", "8", "9">>

IdChars ==
  { DigitChars[i] : i \in 1..10 } \cup
  { "A", "B", "C", "D", "E", "F", "G", "H", "I", "J", "K", "L", "M",
    "N", "O", "P", "Q", "R", "S", "T", "U", "V", "W", "X", "Y", "Z",
    "a", "b", "c", "d", "e", "f", "g", "h", "i", "j", "k", "l", "m",
    "n", "o", "p", "q", "r", "s", "t", "u", "v", "w", "x", "y", "z",
    "_", "-" }

\* ------------------------------------------------------ pure helpers

\* [0-9A-Za-z_-]{11} matches at position g of url
IsIdAt(url, g) ==
  /\ g + IdLen - 1 <= Len(url)
  /\ \A k \in g..(g + IdLen - 1) : url[k] \in IdChars

\* where the group of (?:v=|/)([0-9A-Za-z_-]{11}) starts when the pattern
\* matches at position i, 0 when it does not match there
GroupStart(url, i) ==
  IF url[i] = "v" /\ i + 1 <= Len(url) /\ url[i + 1] = "=" /\ IsIdAt(url, i + 2)
  THEN i + 2
  ELSE IF url[i] = "/" /\ IsIdAt(url, i + 1) THEN i + 1 ELSE 0

\* re.search: the leftmost match
extract_video_id(url) ==
  LET hits == { i \in 1..Len(url) : GroupStart(url, i) # 0 } IN
  IF hits = {} THEN None
  ELSE LET g == GroupStart(url, Min(hits)) IN SubSeq(url, g, g + IdLen - 1)

\* int(x) of a non-negative float x
int_of_float(ticks) == ticks \div TicksPerSec

\* the float n.0 of an int n
float_of_int(n) == n * TicksPerSec

\* str(n) / f"{n}" of a non-negative int
RECURSIVE str(_)
str(n) ==
  IF n < 10 THEN <<DigitChars[n + 1]>>
  ELSE str(n \div 10) \o <<DigitChars[(n % 10) + 1]>>

\* f"{n:02}"
Pad2(n) == IF n < 10 THEN <<"0">> \o str(n) ELSE str(n)

format_timestamp(seconds) ==
  LET total_seconds == int_of_float(seconds)
      hours == total_seconds \div 3600
      remainder == total_seconds % 3600
      minutes == remainder \div 60
      secs == remainder % 60
  IN IF hours # 0
     THEN str(hours) \o <<":">> \o Pad2(minutes) \o <<":">> \o Pad2(secs)
     ELSE str(minutes) \o <<":">> \o Pad2(secs)

\* s.split(sep) for a one-character sep
RECURSIVE split(_, _)
split(s, sep) ==
  LET at == { i \in 1..Len(s) : s[i] = sep } IN
  IF at = {} THEN <<s>>
  ELSE LET i == Min(at) IN
       <<SubSeq(s, 1, i - 1)>> \o split(SubSeq(s, i + 1, Len(s)), sep)

DigitValue(c) == CHOOSE d \in 0..9 : DigitChars[d + 1] = c

RECURSIVE DigitsValue(_)
DigitsValue(s) ==
  IF Len(s) = 0 THEN 0
  ELSE 10 * DigitsValue(SubSeq(s, 1, Len(s) - 1)) + DigitValue(s[Len(s)])

\* int(s) of a str: ValueError unless s is a non-empty run of digits
int_of_str(s) ==
  IF Len(s) >= 1 /\ \A i \in 1..Len(s) : \E d \in 1..10 : DigitChars[d] = s[i]
  THEN DigitsValue(s)
  ELSE ValueError

\* f"{video_id}_{int(buffer_start_time)}"
chunk_id_of(video_id, buffer_start_time) ==
  video_id \o <<"_">> \o str(int_of_float(buffer_start_time))

\* ------------------------------------------------------- cache store

EmptyCache == <<>>

MissingFile == [state |-> "missing", data |-> EmptyCache]
CorruptFile == [state |-> "corrupt", data |-> EmptyCache]

\* load_cache that forgets the file
load_cache_forgets(file) == EmptyCache

load_cache(file) == IF file.state = "ok" THEN file.data ELSE EmptyCache

\* save_cache that writes nothing
save_cache_skipped(file, cache) == file

\* save_cache that keeps what the file holds and adds the cache to it
save_cache_merging(file, cache) ==
  [state |-> "ok", data |-> cache @@ (IF file.state = "ok" THEN file.data ELSE EmptyCache)]

save_cache(file, cache) == [state |-> "ok", data |-> cache]

\* ------------------------------------------------------------ inputs

VideoIds ==
  { <<"a", "b", "c", "1", "2", "3", "4", "5", "6", "7", "8">>,
    <<"a", "_", "c", "1", "2", "3", "4", "5", "6", "7", "8">> }

Urls ==
  { <<"v", "=", "a", "b", "c", "1", "2", "3", "4", "5", "6", "7", "8">>,
    <<"/", "a", "_", "c", "1", "2", "3", "4", "5", "6", "7", "8">>,
    <<"/", "w", "a", "t", "c", "h", "?", "v", "=",
      "a", "_", "c", "1", "2", "3", "4", "5", "6", "7", "8">>,
    <<"/", "w", "a", "t", "c", "h">> }

Entries == [start : 0..MaxTick, words : 0..MaxWords]

\* caption tracks: at most MaxEntries entries in playback order, each entry
\* starting later than the one before it
Transcripts ==
  UNION { { t \in [1..n -> Entries] :
              \A i \in 1..n : \A j \in 1..n : i < j => t[i].start < t[j].start }
          : n \in 0..MaxEntries }

\* what the transcript service does during one invocation
Envs ==
  [ list : {"TranscriptsDisabled", "NoTranscriptFound", "VideoUnavailable", "Exception"},
    available : {<<>>}, list2 : {"ok"}, fetch : {"ok"} ] \cup
  [ list : {"ok"}, available : {<<>>, <<"en">>, <<"de">>},
    list2 : {"ok"}, fetch : {"ok"} ] \cup
  { [list |-> "ok", available |-> <<"en">>, list2 |-> "raise", fetch |-> "ok"],
    [list |-> "ok", available |-> <<"en">>, list2 |-> "ok", fetch |-> "raise"] }

\* what the language model does on one call: a title, or an exception
LMOutcomes == {"Title A", "raise"}

Sessions == {1, 2}
SingleSession == {1}

\* ------------------------------------------------------------- state

VARIABLES
  transcript,   \* the caption track the transcript service serves
  cache_file,   \* cache.json
  pc,           \* per session: "idle", "loop" (inside the for loop), "done"
  run,          \* per session: the locals and the result of generate_ai_chapters
  view,         \* what the View Cached Videos page last rendered
  lmCalls,      \* chunk id -> number of client.chat.completions.create calls
  runs          \* number of invocations so far

vars == <<transcript, cache_file, pc, run, view, lmCalls, runs>>

BlankRun ==
  [ status |-> "none", message |-> "",
    video_id |-> None, max_words_per_chunk |-> 0,
    cache |-> EmptyCache, chapters |-> <<>>,
    buffer |-> <<>>, buffer_start_time |-> ValueError, word_count |-> 0,
    pos |-> 1, chunks |-> <<>>, thresholdChanged |-> FALSE ]

NoStart == ValueError

NoView == [status |-> "none", grouped |-> {}]

Init ==
  /\ transcript \in Transcripts
  /\ cache_file \in {MissingFile, CorruptFile}
  /\ pc = [p \in Sessions |-> "idle"]
  /\ run = [p \in Sessions |-> BlankRun]
  /\ view = NoView
  /\ lmCalls = EmptyCache
  /\ runs = 0

\* ------------------------------------------------ transcript fetcher

get_available_transcripts(env) ==
  CASE env.list = "ok" ->
         [status |-> "ok", message |-> "", available_transcripts |-> env.available]
    [] env.list = "TranscriptsDisabled" ->
         [status |-> "error",
          message |-> "Transcripts are disabled. Enable captions in YouTube Studio.",
          available_transcripts |-> <<>>]
    [] env.list = "NoTranscriptFound" ->
         [status |-> "error",
          message |-> "No transcripts found. Upload captions in YouTube Studio.",
          available_transcripts |-> <<>>]
    [] env.list = "VideoUnavailable" ->
         [status |-> "error",
          message |-> "This video is unavailable. Check the video ID or URL.",
          available_transcripts |-> <<>>]
    [] OTHER ->
         [status |-> "error", message |-> "Unexpected error",
          available_transcripts |-> <<>>]

preferred == <<"en", "en-US", "en-GB", "hi", "hi-IN">>

\* transcript_list.find_transcript(codes) finds a track (else NoTranscriptFound)
find_transcript(available, codes) ==
  \E i \in 1..Len(codes) : \E j \in 1..Len(available) : available[j] = codes[i]

\* ------------------------------------------------------- summarizer

\* summarize_chunk without the cache lookup of lines 70-71
summarize_chunk_no_lookup(chunk_id, text, cache, file, lm) ==
  LET title == IF lm = "raise" THEN FallbackTitle ELSE lm
      cache2 == (chunk_id :> title) @@ cache
  IN [title |-> title, cache |-> cache2, file |-> save_cache(file, cache2),
      via |-> IF lm = "raise" THEN "fallback" ELSE "model", called |-> TRUE]

\* summarize_chunk that returns the fallback title without storing it
summarize_chunk_fallback_unsaved(chunk_id, text, cache, file, lm) ==
  IF chunk_id \in DOMAIN cache
  THEN [title |-> cache[chunk_id], cache |-> cache, file |-> file,
        via |-> "cache", called |-> FALSE]
  ELSE IF lm = "raise"
  THEN [title |-> FallbackTitle, cache |-> cache, file |-> file,
        via |-> "fallback", called |-> TRUE]
  ELSE LET cache2 == (chunk_id :> lm) @@ cache
       IN [title |-> lm, cache |-> cache2, file |-> save_cache(file, cache2),
           via |-> "model", called |-> TRUE]

summarize_chunk(chunk_id, text, cache, file, lm) ==
  IF chunk_id \in DOMAIN cache
  THEN [title |-> cache[chunk_id], cache |-> cache, file |-> file,
        via |-> "cache", called |-> FALSE]
  ELSE LET title == IF lm = "raise" THEN FallbackTitle ELSE lm
           cache2 == (chunk_id :> title) @@ cache
       IN [title |-> title, cache |-> cache2, file |-> save_cache(file, cache2),
           via |-> IF lm = "raise" THEN "fallback" ELSE "model", called |-> TRUE]

\* ---------------------------------------------------------- pipeline

\* lines 90-111: everything before the loop
Setup(url, max_words_per_chunk, env, file, last) ==
  LET video_id == extract_video_id(url)
      trans_result == get_available_transcripts(env)
      available_codes == trans_result.available_transcripts
      Raise(what) == [BlankRun EXCEPT !.status = "exception", !.message = what]
  IN IF video_id = None
     THEN [BlankRun EXCEPT !.status = "error", !.message = "Invalid YouTube URL."]
     ELSE IF trans_result.status # "ok"
     THEN [BlankRun EXCEPT !.status = "error", !.message = trans_result.message]
     ELSE IF env.list2 = "raise" THEN Raise("list")
     ELSE IF ~find_transcript(env.available, preferred) /\ available_codes = <<>>
     THEN Raise("IndexError")
     ELSE IF env.fetch = "raise" THEN Raise("fetch")
     ELSE [BlankRun EXCEPT
             !.status = "running",
             !.video_id = video_id,
             !.max_words_per_chunk = max_words_per_chunk,
             !.cache = load_cache(file),
             !.thresholdChanged =
                /\ last.status = "ok"
                /\ last.video_id = video_id
                /\ last.max_words_per_chunk # max_words_per_chunk ]

Start(p) ==
  /\ pc[p] # "loop"
  /\ runs < MaxRuns
  /\ \E url \in Urls, env \in Envs :
       \* the threshold is first read inside the loop: a failing invocation
       \* is the same whatever it is
       IF Setup(url, 1, env, cache_file, run[p]).status # "running"
       THEN /\ run' = [run EXCEPT ![p] = Setup(url, 1, env, cache_file, run[p])]
            /\ pc' = [pc EXCEPT ![p] = "done"]
       ELSE \E max_words_per_chunk \in 1..MaxThreshold :
              /\ run' = [run EXCEPT ![p] =
                           Setup(url, max_words_per_chunk, env, cache_file, run[p])]
              /\ pc' = [pc EXCEPT ![p] = "loop"]
  /\ runs' = runs + 1
  /\ view' = NoView
  /\ UNCHANGED <<transcript, cache_file, lmCalls>>

\* lines 119-123 and 128-131: close the buffered chunk, title it, append the chapter
Emit(p, r, buffer, buffer_start_time, lm) ==
  LET chunk_id == chunk_id_of(r.video_id, buffer_start_time)
      s == summarize_chunk(chunk_id, buffer, r.cache, cache_file, lm)
  IN /\ run' = [run EXCEPT ![p] =
                  [r EXCEPT
                     !.cache = s.cache,
                     !.chapters = Append(@, <<format_timestamp(buffer_start_time), s.title>>),
                     !.chunks = Append(@, [id |-> chunk_id, start |-> buffer_start_time,
                                           entries |-> buffer, via |-> s.via,
                                           title |-> s.title]),
                     !.buffer = <<>>,
                     !.buffer_start_time = NoStart,
                     !.word_count = 0]]
     /\ cache_file' = s.file
     /\ lmCalls' = IF s.called
                   THEN (chunk_id :> (IF chunk_id \in DOMAIN lmCalls
                                      THEN lmCalls[chunk_id] + 1 ELSE 1)) @@ lmCalls
                   ELSE lmCalls

\* lines 113-123: one iteration of the for loop
ProcessEntry(p) ==
  /\ pc[p] = "loop"
  /\ run[p].pos <= Len(transcript)
  /\ LET r0 == run[p]
         entry == transcript[r0.pos]
         buffer_start_time ==
           IF r0.buffer_start_time = NoStart THEN entry.start ELSE r0.buffer_start_time
         buffer == Append(r0.buffer, r0.pos)
         word_count == r0.word_count + entry.words
         r == [r0 EXCEPT !.pos = @ + 1]
     IN IF word_count >= r.max_words_per_chunk
        THEN \E lm \in LMOutcomes : Emit(p, r, buffer, buffer_start_time, lm)
        ELSE /\ run' = [run EXCEPT ![p] =
                          [r EXCEPT !.buffer = buffer,
                                    !.buffer_start_time = buffer_start_time,
                                    !.word_count = word_count]]
             /\ UNCHANGED <<cache_file, lmCalls>>
  /\ UNCHANGED <<transcript, pc, view, runs>>

\* lines 125-133: flush what is buffered and return
Finish(p) ==
  /\ pc[p] = "loop"
  /\ run[p].pos > Len(transcript)
  /\ LET r == [run[p] EXCEPT !.status = "ok"] IN
     IF r.buffer # <<>>
     THEN \E lm \in LMOutcomes :
            Emit(p, r, r.buffer,
                 IF r.buffer_start_time = NoStart THEN 0 ELSE r.buffer_start_time, lm)
     ELSE /\ run' = [run EXCEPT ![p] = r]
          /\ UNCHANGED <<cache_file, lmCalls>>
  /\ pc' = [pc EXCEPT ![p] = "done"]
  /\ UNCHANGED <<transcript, view, runs>>

\* ------------------------------------------------- cached videos page

\* lines 188-190 for one cache entry
ViewEntry(chunk_id, title) ==
  LET parts == split(chunk_id, "_") IN
  IF Len(parts) # 2
  THEN [ok |-> FALSE, video_id |-> None, timestamp |-> None, title |-> title]
  ELSE IF int_of_str(parts[2]) = ValueError
  THEN [ok |-> FALSE, video_id |-> None, timestamp |-> None, title |-> title]
  ELSE [ok |-> TRUE, video_id |-> parts[1],
        timestamp |-> format_timestamp(float_of_int(int_of_str(parts[2]))),
        title |-> title]

\* lines 152, 180-190
ViewCachedVideos(p) ==
  /\ pc[p] # "loop"
  /\ LET cache == load_cache(cache_file)
         rows == { ViewEntry(id, cache[id]) : id \in DOMAIN cache }
     IN view' = IF cache = EmptyCache THEN [status |-> "empty", grouped |-> {}]
                ELSE IF \E e \in rows : ~e.ok THEN [status |-> "ValueError", grouped |-> {}]
                ELSE [status |-> "ok", grouped |-> rows]
  /\ UNCHANGED <<transcript, cache_file, pc, run, lmCalls, runs>>

\* --------------------------------------------------- specifications

Step(p) == Start(p) \/ ProcessEntry(p) \/ Finish(p) \/ ViewCachedVideos(p)

\* one session: invocations follow one another
Next == \E p \in SingleSession : Step(p)
Spec == Init /\ [][Next]_vars

\* a session's first invocation
StartOnce(p) == pc[p] = "idle" /\ Start(p)

\* two sessions on the same cache.json, one invocation each: the invocations
\* interleave between chunks
NextConc == \E p \in Sessions : StartOnce(p) \/ ProcessEntry(p) \/ Finish(p)
SpecConc == Init /\ [][NextConc]_vars

\* ------------------------------------------------------------ claims

Chunks(p) == run[p].chunks

ChunkIxs(p) == 1..Len(run[p].chunks)

InFile(id, title) ==
  /\ cache_file.state = "ok"
  /\ id \in DOMAIN cache_file.data
  /\ cache_file.data[id] = title

RECURSIVE TotalWords(_)
TotalWords(t) ==
  IF Len(t) = 0 THEN 0 ELSE TotalWords(SubSeq(t, 1, Len(t) - 1)) + t[Len(t)].words

\* C1: over any sequence of invocations on one cache file the language model
\* is called at most once per chunk id, and a chunk whose id is in the cache
\* gets the stored title, unchanged.
C1_AtMostOneCallPerChunkId ==
  /\ \A id \in DOMAIN lmCalls : lmCalls[id] <= 1
  /\ \A p \in Sessions : \A i \in ChunkIxs(p) :
       Chunks(p)[i].via = "cache" =>
         /\ Chunks(p)[i].title = run[p].cache[Chunks(p)[i].id]
         /\ InFile(Chunks(p)[i].id, Chunks(p)[i].title)

\* C1 witness: a second invocation has finished and one of its chunks was
\* served from the cache, its one model call made by an earlier invocation.
C1_Witness ==
  /\ runs = 2
  /\ pc[1] = "done"
  /\ \E i \in ChunkIxs(1) :
       /\ Chunks(1)[i].via = "cache"
       /\ \A j \in ChunkIxs(1) : Chunks(1)[j].id = Chunks(1)[i].id => j = i
       /\ lmCalls[Chunks(1)[i].id] = 1

\* C2: write-through: at every point of a run, every title the run has
\* computed is in the cache file, and while the run is in its loop after a new
\* title the file holds the run's whole cache.
C2_WriteThrough ==
  \A p \in Sessions :
    /\ \A i \in ChunkIxs(p) :
         Chunks(p)[i].via # "cache" => InFile(Chunks(p)[i].id, Chunks(p)[i].title)
    /\ (pc[p] = "loop" /\ \E i \in ChunkIxs(p) : Chunks(p)[i].via # "cache")
         => cache_file = [state |-> "ok", data |-> run[p].cache]

\* C2 witness: a run stands between two chunk summarizations with one new
\* title computed and entries still to read.
C2_Witness ==
  /\ pc[1] = "loop"
  /\ run[1].pos <= Len(transcript)
  /\ Len(Chunks(1)) = 1
  /\ Chunks(1)[1].via # "cache"

\* C3: the chunk ids of one run are pairwise distinct.
C3_ChunkIdsDistinct ==
  \A p \in Sessions : \A i \in ChunkIxs(p) : \A j \in ChunkIxs(p) :
    i # j => Chunks(p)[i].id # Chunks(p)[j].id

\* C4: a run on the video of the session's previous run, with another
\* threshold, is served no title from that run's cache entries: every chunk id
\* it finds in the cache is one it computed itself earlier in the run.
C4_NewThresholdNoReuse ==
  \A p \in Sessions : \A i \in ChunkIxs(p) :
    (run[p].thresholdChanged /\ Chunks(p)[i].via = "cache")
      => \E j \in 1..(i - 1) : Chunks(p)[j].id = Chunks(p)[i].id

\* C5: an invocation that has ended returned status ok or status error.
C5_ReturnsOkOrError ==
  \A p \in Sessions : pc[p] = "done" => run[p].status \in {"ok", "error"}

\* C6: a chunk whose model call failed is titled "Chapter Title Error", the
\* title is stored in the cache and in the file, and the run goes on: it ends
\* with status ok, one chapter per chunk, every caption entry in a chunk.
C6_FallbackTitle ==
  \A p \in Sessions :
    (\E i \in ChunkIxs(p) : Chunks(p)[i].via = "fallback") =>
      /\ \A i \in ChunkIxs(p) :
           Chunks(p)[i].via = "fallback" =>
             /\ Chunks(p)[i].title = FallbackTitle
             /\ run[p].chapters[i][2] = FallbackTitle
             /\ Chunks(p)[i].id \in DOMAIN run[p].cache
             /\ run[p].cache[Chunks(p)[i].id] = FallbackTitle
             /\ InFile(Chunks(p)[i].id, FallbackTitle)
      /\ pc[p] = "loop" => run[p].status = "running"
      /\ pc[p] = "done" =>
           /\ run[p].status = "ok"
           /\ Len(run[p].chapters) = Len(Chunks(p))
           /\ \A e \in 1..Len(transcript) :
                \E i \in ChunkIxs(p) :
                  \E k \in 1..Len(Chunks(p)[i].entries) : Chunks(p)[i].entries[k] = e

\* C6 witness: a finished run whose first chunk got the fallback title and
\* which went on to title a second chunk.
C6_Witness ==
  /\ pc[1] = "done"
  /\ Len(Chunks(1)) = 2
  /\ Chunks(1)[1].via = "fallback"
  /\ Chunks(1)[2].via = "model"

\* C7: a caption sequence whose words add up to exactly the threshold gives
\* exactly one chunk, holding every entry.
C7_ExactThresholdOneChunk ==
  \A p \in Sessions :
    (pc[p] = "done" /\ run[p].status = "ok"
       /\ TotalWords(transcript) = run[p].max_words_per_chunk)
      => /\ Len(Chunks(p)) = 1
         /\ Chunks(p)[1].entries = [e \in 1..Len(transcript) |-> e]

\* C8: the cached-videos page recovers, from every chunk id generation wrote,
\* the video id and the timestamp generation emitted for the chunk.
C8_RoundTrip ==
  /\ view.status # "ValueError"
  /\ \A p \in Sessions : \A i \in ChunkIxs(p) :
       LET e == ViewEntry(Chunks(p)[i].id, Chunks(p)[i].title) IN
       /\ e.ok
       /\ e.video_id = run[p].video_id
       /\ e.timestamp = run[p].chapters[i][1]

\* C9: the cache file is append-only: an entry of the file is in every later
\* state of the file, with the same title.
C9_AppendOnly ==
  [][ cache_file.state = "ok" =>
        /\ cache_file'.state = "ok"
        /\ \A id \in DOMAIN cache_file.data :
             /\ id \in DOMAIN cache_file'.data
             /\ cache_file'.data[id] = cache_file.data[id] ]_vars

\* C9 witness: a later invocation has added an entry to a file that holds an
\* entry of an earlier invocation.
C9_Witness ==
  /\ runs = 2
  /\ cache_file.state = "ok"
  /\ \E i \in ChunkIxs(1) : Chunks(1)[i].via # "cache"
  /\ \E id \in DOMAIN cache_file.data :
       \A i \in ChunkIxs(1) : Chunks(1)[i].id # id

\* C10: every write of the cache file replaces the whole file by the writing
\* invocation's own in-memory cache (so what another invocation persisted
\* since the writer loaded the file is lost).
C10_WholeFileFromOwnCopy ==
  [][ cache_file' # cache_file =>
        \E p \in Sessions :
          /\ pc[p] = "loop"
          /\ Len(run'[p].chunks) = Len(run[p].chunks) + 1
          /\ cache_file' = [state |-> "ok", data |-> run'[p].cache] ]_vars

\* C10 witness: a lost update: a title one invocation computed and persisted
\* is absent from the file after a write by the other invocation.
C10_LostUpdate ==
  \E p \in Sessions : \E i \in ChunkIxs(p) :
    /\ Chunks(p)[i].via # "cache"
    /\ Chunks(p)[i].id \notin DOMAIN cache_file.data
    /\ \E q \in Sessions \ {p} : \E j \in ChunkIxs(q) : Chunks(q)[j].via # "cache"

====
